---- MODULE Spec2Model ----
(***************************************************************************)
(* A model of the access-unit crate's binary decoders: the length-prefixed *)
(* chunk iterator (chunk.rs), the ADTS codec (aac.rs), the FLAC VarInt     *)
(* decoder over the bit reader (flac.rs), the MPEG audio header parser and *)
(* scanner (mp3.rs), the ISO-BMFF box walker and audio-track detector      *)
(* (mp4.rs), the FLAC frame splitters and STREAMINFO writer (flac.rs) and  *)
(* the Annex-B start-code test (h264.rs).                                  *)
(*                                                                         *)
(* Bytes are naturals in 0..255 and a buffer is a sequence of bytes.  Rust *)
(* offsets are 0-based, so byte k of a buffer d is d[k + 1].  Each         *)
(* component has its own specification; the variables of the other         *)
(* components stay at their idle values.                                   *)
(***************************************************************************)
EXTENDS Integers, Sequences, FiniteSets, TLC

VARIABLES
    \* chunk.rs: LpChunkIter { data, pos, index }; items is the sequence of
    \* values next() has returned so far, recs the payloads data was built
    \* from (NoRecs for a buffer that was not built from records)
    data, pos, index, items, recs,
    \* aac.rs: the operation applied (aacOp), its arguments (aacArgs), the
    \* buffer it works on (aacBuf), its result (aacOut) and its position
    aacOp, aacArgs, aacBuf, aacOut, aacPc,
    \* flac.rs, decode_frame_header: the input, BitReader::bit_position, the
    \* FLACFrameInfo being filled (fi), the locals bs_code and sr_code
    \* (codes), read_utf8's locals value and shift, the place in the function
    \* (flacPc), the error returned (flacErr), the value of shift at every
    \* left shift executed (shiftTrace), and whether the build checks
    \* arithmetic overflow (overflowChecks: debug yes, release no)
    flacData, bit_position, fi, codes, value, shift, flacPc, flacErr, shiftTrace,
    overflowChecks,
    \* flac.rs, create_streaminfo: the bytes returned for the decoded fi
    streaminfo,
    \* mp3.rs: the function applied (mp3Op: parse_frame_header or find_frame),
    \* its input, find_frame's loop variable offset, the value returned and
    \* the place in the function
    mp3Op, mp3Data, mp3Offset, mp3Out, mp3Pc,
    \* mp4.rs: the function applied (boxOp: next_box or find_child), the
    \* buffer, find_child's target, the offset (next_box's argument,
    \* find_child's loop variable), the value returned, the place in the
    \* function and the offsets at which find_child's loop got a box
    boxOp, boxData, boxTarget, boxOffset, boxOut, boxPc, boxTrail,
    \* mp4.rs, detect_audio_track: the input, the boxes it was built from
    \* (trkShape), the content of moov, the loop variable offset, the box the
    \* loop is at (trkBox), the box content parse_trak is in (trkIn: trak,
    \* mdia, minf, stbl or stsd), the value returned and the place in the
    \* function
    trkData, trkShape, trkMoov, trkOffset, trkBox, trkIn, trkOut, trkPc,
    \* flac.rs, extract_flac_frame and split_flac_frames: the function applied
    \* (frOp), the input, split's start_index and frames, the value returned,
    \* the place in the function and whether the build checks overflow
    frOp, frData, start_index, frames, frOut, frPc, frChecks,
    \* h264.rs, is_nalu: the input, the value returned and the place
    naluData, naluOut, naluPc

chunkVars == <<data, pos, index, items, recs>>
aacVars == <<aacOp, aacArgs, aacBuf, aacOut, aacPc>>
flacVars ==
    <<flacData, bit_position, fi, codes, value, shift, flacPc, flacErr, shiftTrace,
      overflowChecks, streaminfo>>

mp3Vars == <<mp3Op, mp3Data, mp3Offset, mp3Out, mp3Pc>>

boxVars == <<boxOp, boxData, boxTarget, boxOffset, boxOut, boxPc, boxTrail>>

trkVars == <<trkData, trkShape, trkMoov, trkOffset, trkBox, trkIn, trkOut, trkPc>>

frVars == <<frOp, frData, start_index, frames, frOut, frPc, frChecks>>

naluVars == <<naluData, naluOut, naluPc>>

vars == <<chunkVars, aacVars, flacVars, mp3Vars, boxVars, trkVars, frVars, naluVars>>

\* what a component's actions leave alone: the other components
notChunk == <<aacVars, flacVars, mp3Vars, boxVars, trkVars, frVars, naluVars>>
notAac == <<chunkVars, flacVars, mp3Vars, boxVars, trkVars, frVars, naluVars>>
notFlac == <<chunkVars, aacVars, mp3Vars, boxVars, trkVars, frVars, naluVars>>
notMp3 == <<chunkVars, aacVars, flacVars, boxVars, trkVars, frVars, naluVars>>
notBox == <<chunkVars, aacVars, flacVars, mp3Vars, trkVars, frVars, naluVars>>
notTrk == <<chunkVars, aacVars, flacVars, mp3Vars, boxVars, frVars, naluVars>>
notFr == <<chunkVars, aacVars, flacVars, mp3Vars, boxVars, trkVars, naluVars>>
notNalu == <<chunkVars, aacVars, flacVars, mp3Vars, boxVars, trkVars, frVars>>

(***************************************************************************)
(* Bit and byte helpers                                                    *)
(***************************************************************************)

RECURSIVE BitAnd(_, _)
\* a & b on naturals
BitAnd(a, b) ==
    IF a = 0 \/ b = 0 THEN 0
    ELSE (a % 2) * (b % 2) + 2 * BitAnd(a \div 2, b \div 2)

RECURSIVE BitOr(_, _)
\* a | b on naturals
BitOr(a, b) ==
    IF a = 0 THEN b
    ELSE IF b = 0 THEN a
    ELSE (IF a % 2 = 1 \/ b % 2 = 1 THEN 1 ELSE 0) + 2 * BitOr(a \div 2, b \div 2)

RECURSIVE Pow2(_)
Pow2(n) == IF n = 0 THEN 1 ELSE 2 * Pow2(n - 1)

\* a << n and a >> n without a width
Shl(a, n) == a * Pow2(n)
Shr(a, n) == a \div Pow2(n)

\* data[from..to] of Rust (0-based, to exclusive)
Slice(d, from, to) == SubSeq(d, from + 1, to)

RECURSIVE SeqsUpTo(_, _)
\* every sequence over S of length at most n
SeqsUpTo(S, n) ==
    IF n = 0 THEN {<<>>}
    ELSE LET shorter == SeqsUpTo(S, n - 1)
         IN  shorter \cup {Append(s, x) : s \in {t \in shorter : Len(t) = n - 1}, x \in S}

(***************************************************************************)
(* chunk.rs: the length-prefixed chunk iterator                            *)
(***************************************************************************)

\* bounds of the chunk inputs
MaxRawLen == 8
MaxRecs == 2
MaxPayload == 2
MaxCalls == 4

\* the byte values raw buffers and payloads are drawn from
ChunkBytes == {0, 1, 65}

\* marks a buffer that was not built from records: one payload holding a
\* value no byte can take
NoRecs == <<<<256>>>>

\* u32::from_le_bytes(data[p..p + 4])
U32FromLe(d, p) ==
    d[p + 1] + 256 * d[p + 2] + 65536 * d[p + 3] + 16777216 * d[p + 4]

\* the values next() returns
NoneItem == [kind |-> "None", index |-> 0, chunk |-> <<>>]
ErrItem(msg) == [kind |-> msg, index |-> 0, chunk |-> <<>>]
OkItem(i, c) == [kind |-> "Ok", index |-> i, chunk |-> c]

IsErr(item) == item.kind \in {"Incomplete length prefix", "Incomplete chunk data"}

\* A mutant of LpChunkIterNext: the index is not advanced.
LpChunkIterNextStuckIndex(d, p, i) ==
    IF p + 4 > Len(d)
    THEN IF p = Len(d)
         THEN [item |-> NoneItem, pos |-> p, index |-> i]
         ELSE [item |-> ErrItem("Incomplete length prefix"), pos |-> p, index |-> i]
    ELSE LET chunk_len == U32FromLe(d, p)
             p4 == p + 4
         IN  IF p4 + chunk_len > Len(d)
             THEN [item |-> ErrItem("Incomplete chunk data"), pos |-> p4, index |-> i]
             ELSE [item |-> OkItem(i, Slice(d, p4, p4 + chunk_len)),
                   pos |-> p4 + chunk_len, index |-> i]

\* LpChunkIter::next on the iterator state (d, p, i): the item returned and
\* the new pos and index
LpChunkIterNext(d, p, i) ==
    IF p + 4 > Len(d)
    THEN IF p = Len(d)
         THEN [item |-> NoneItem, pos |-> p, index |-> i]
         ELSE [item |-> ErrItem("Incomplete length prefix"), pos |-> p, index |-> i]
    ELSE LET chunk_len == U32FromLe(d, p)
             p4 == p + 4
         IN  IF p4 + chunk_len > Len(d)
             THEN [item |-> ErrItem("Incomplete chunk data"), pos |-> p4, index |-> i]
             ELSE [item |-> OkItem(i, Slice(d, p4, p4 + chunk_len)),
                   pos |-> p4 + chunk_len, index |-> i + 1]

\* a 4-byte little-endian length (below 256 here) and the payload
EncodeRecord(payload) == <<Len(payload), 0, 0, 0>> \o payload

RECURSIVE EncodeRecords(_)
EncodeRecords(rs) ==
    IF rs = <<>> THEN <<>> ELSE EncodeRecord(Head(rs)) \o EncodeRecords(Tail(rs))

ChunkPayloads == SeqsUpTo(ChunkBytes, MaxPayload)
ChunkRecLists == SeqsUpTo(ChunkPayloads, MaxRecs)

\* the buffers of the spec's examples
ChunkExamples == {<<3, 0, 0, 0, 65, 66, 67>>, <<5, 0, 0, 0, 65>>}

\* LpChunkIter::new
ChunkInit ==
    /\ \/ /\ recs \in ChunkRecLists
          /\ data = EncodeRecords(recs)
       \/ /\ recs = NoRecs
          /\ data \in SeqsUpTo(ChunkBytes, MaxRawLen) \cup ChunkExamples
    /\ pos = 0
    /\ index = 0
    /\ items = <<>>

ChunkIdle ==
    /\ data = <<>>
    /\ pos = 0
    /\ index = 0
    /\ items = <<>>
    /\ recs = NoRecs

\* one call of next()
ChunkNext ==
    /\ Len(items) < MaxCalls
    /\ LET r == LpChunkIterNext(data, pos, index)
       IN  /\ pos' = r.pos
           /\ index' = r.index
           /\ items' = Append(items, r.item)
    /\ UNCHANGED <<data, recs>>
    /\ UNCHANGED notChunk

(***************************************************************************)
(* aac.rs: the ADTS codec                                                  *)
(***************************************************************************)

\* bounds of the ADTS inputs
MaxSmallPayload == 2
MaxTail == 3
MaxRawAac == 3

\* the 13-bit frame-length field holds at most this
MaxFrameLength == 8191

\* results: Option<Bytes>, Bytes, or a panic of the call
NoneOut == [kind |-> "None", bytes |-> <<>>]
SomeOut(b) == [kind |-> "Some", bytes |-> b]
BytesOut(b) == [kind |-> "Bytes", bytes |-> b]
PanicOut == [kind |-> "Panic", bytes |-> <<>>]
NoOut == [kind |-> "-", bytes |-> <<>>]
BoolOut(b) == [kind |-> IF b THEN "true" ELSE "false", bytes |-> <<>>]

\* pub fn is_aac
IsAac(input) ==
    IF Len(input) < 7 THEN FALSE
    ELSE IF input[1] # 255 \/ BitAnd(input[2], 240) # 240 THEN FALSE
    ELSE
        LET layer == Shr(BitAnd(input[2], 6), 1)
            profile == Shr(BitAnd(input[3], 192), 6)
            sampling_freq_index == Shr(BitAnd(input[3], 60), 2)
        IN  IF layer # 0 THEN FALSE
            ELSE IF profile = 3 THEN FALSE
            ELSE IF sampling_freq_index > 11 THEN FALSE
            ELSE TRUE

\* fn sample_rate_index
SampleRateIndex(sample_rate) ==
    CASE sample_rate = 96000 -> 0
      [] sample_rate = 88200 -> 1
      [] sample_rate = 64000 -> 2
      [] sample_rate = 48000 -> 3
      [] sample_rate = 44100 -> 4
      [] sample_rate = 32000 -> 5
      [] sample_rate = 24000 -> 6
      [] sample_rate = 22050 -> 7
      [] sample_rate = 16000 -> 8
      [] sample_rate = 12000 -> 9
      [] sample_rate = 11025 -> 10
      [] sample_rate = 8000 -> 11
      [] sample_rate = 7350 -> 12
      [] OTHER -> 15

\* the sample rates sample_rate_index knows
SupportedRates ==
    {96000, 88200, 64000, 48000, 44100, 32000, 24000, 22050, 16000, 12000, 11025,
     8000, 7350}

\* A mutant of ExtractAacData: the header size is taken as 7 whatever the
\* protection_absent bit says.
ExtractAacDataFixedHeader(sound_data) ==
    IF Len(sound_data) < 7 THEN NoneOut
    ELSE IF sound_data[1] # 255 \/ BitAnd(sound_data[2], 240) # 240 THEN NoneOut
    ELSE
        LET header_size == 7
            frame_length ==
                BitOr(BitOr(Shl(BitAnd(sound_data[4], 3), 11), Shl(sound_data[5], 3)),
                      Shr(sound_data[6], 5))
        IN  IF Len(sound_data) < header_size THEN NoneOut
            ELSE IF Len(sound_data) < frame_length THEN NoneOut
            ELSE IF header_size > frame_length THEN PanicOut
            ELSE SomeOut(Slice(sound_data, header_size, frame_length))

\* pub fn extract_aac_data.  Bytes::slice(begin..end) panics when begin > end
\* (or end > len, which the length check excludes).
ExtractAacData(sound_data) ==
    IF Len(sound_data) < 7 THEN NoneOut
    ELSE IF sound_data[1] # 255 \/ BitAnd(sound_data[2], 240) # 240 THEN NoneOut
    ELSE
        LET protection_absent == BitAnd(sound_data[2], 1) = 1
            header_size == IF protection_absent THEN 7 ELSE 9
            frame_length ==
                BitOr(BitOr(Shl(BitAnd(sound_data[4], 3), 11), Shl(sound_data[5], 3)),
                      Shr(sound_data[6], 5))
        IN  IF Len(sound_data) < header_size THEN NoneOut
            ELSE IF Len(sound_data) < frame_length THEN NoneOut
            ELSE IF header_size > frame_length THEN PanicOut
            ELSE SomeOut(Slice(sound_data, header_size, frame_length))

\* pub fn create_adts_header
CreateAdtsHeader(codec_id, channels, sample_rate, aac_frame_length, has_crc) ==
    LET profile_object_type ==
            CASE codec_id = 102 -> 1
              [] codec_id = 103 -> 2
              [] codec_id = 104 -> 3
              [] OTHER -> 1
        sample_rate_index == SampleRateIndex(sample_rate)
        channel_config == IF channels < 7 THEN channels ELSE 7
        header_length == IF has_crc THEN 9 ELSE 7
        frame_length == aac_frame_length + header_length
        protection_absent == IF has_crc THEN 0 ELSE 1
        profile_and_sampling ==
            BitOr(BitOr(Shl(profile_object_type, 6) % 256, Shl(sample_rate_index, 2) % 256),
                  Shr(channel_config, 2))
        frame_length_high == BitAnd(Shr(frame_length, 11), 3)
        frame_length_mid == BitAnd(Shr(frame_length, 3), 255)
        frame_length_low == BitOr(Shl(BitAnd(frame_length, 7), 5), 31)
        header ==
            << 255,
               BitOr(240, protection_absent),
               profile_and_sampling,
               BitOr(Shl(BitAnd(channel_config, 3), 6) % 256, frame_length_high),
               frame_length_mid,
               frame_length_low % 256,
               252 >>
    IN  IF has_crc THEN header \o <<0, 0>> ELSE header

\* pub fn ensure_adts_header.  data[0] panics on an empty buffer; on a 1-byte
\* buffer data.len() - 2 underflows (a panic with overflow checks) and
\* &data[2..] panics in every build.
EnsureAdtsHeader(d, channels, sample_rate) ==
    LET found == ExtractAacData(d)
    IN  IF found = PanicOut THEN PanicOut
        ELSE IF found = NoneOut
        THEN IF Len(d) = 0 THEN PanicOut
             ELSE LET audio_object_type == Shr(d[1], 3)
                      profile ==
                          CASE audio_object_type = 1 -> 102
                            [] audio_object_type = 2 -> 103
                            [] audio_object_type = 5 -> 104
                            [] OTHER -> 102
                  IN  IF Len(d) < 2 THEN PanicOut
                      ELSE BytesOut(
                               CreateAdtsHeader(profile, channels, sample_rate, Len(d) - 2, FALSE)
                                   \o Slice(d, 2, Len(d)))
        ELSE BytesOut(d)

\* payloads of the round trip: every short one, and long ones around the
\* largest frame the 13-bit field can declare
SmallPayloads == SeqsUpTo({0, 255}, MaxSmallPayload)
LongPayloadLens ==
    {MaxFrameLength - 9, MaxFrameLength - 8, MaxFrameLength - 7, MaxFrameLength - 6,
     MaxFrameLength + 1}
LongPayload(n) == [i \in 1..n |-> i % 251]

RoundTripArgs ==
    [codec_id : {102, 103, 104, 0}, channels : 0..7, sample_rate : SupportedRates,
     has_crc : BOOLEAN, payload : SmallPayloads]
    \cup
    [codec_id : {102}, channels : {2}, sample_rate : {44100},
     has_crc : BOOLEAN, payload : {LongPayload(n) : n \in LongPayloadLens}]

\* buffers that start like an ADTS header: sync or not, CRC or not, a declared
\* frame length of 0..23 or more than 2048, and a few bytes after the header
HeaderLikeBuffers ==
    {<<b0, b1, 80, b3, b4, b5, 252>> \o tail :
        b0 \in {255, 0}, b1 \in {241, 240, 225}, b3 \in {0, 1}, b4 \in {0, 1, 2},
        b5 \in {31, 63, 127, 255}, tail \in SeqsUpTo({65}, MaxTail)}

\* short buffers and raw payloads that start with an audio object type
RawAacBuffers ==
    SeqsUpTo({8, 16, 40, 255}, MaxRawAac) \cup {<<40, 16, 1, 2, 3, 4, 5, 6>>}

AacBuffers == HeaderLikeBuffers \cup RawAacBuffers

\* arguments of create_adts_header for the headers given to is_aac
HeaderArgs ==
    [codec_id : {102, 103, 104, 0}, channels : {0, 1, 2, 6, 7, 8},
     sample_rate : SupportedRates \cup {1234}, aac_frame_length : {0, 1, 100},
     has_crc : BOOLEAN]

AacInit ==
    /\ \/ /\ aacOp = "roundtrip"
          /\ aacArgs \in RoundTripArgs
          /\ aacBuf = <<>>
       \/ /\ aacOp = "extract"
          /\ aacArgs = <<>>
          /\ aacBuf \in AacBuffers
       \/ /\ aacOp = "ensure"
          /\ aacArgs \in [channels : {2, 9}, sample_rate : {44100, 1234}]
          /\ aacBuf \in AacBuffers
       \/ /\ aacOp = "is_aac"
          /\ aacArgs \in HeaderArgs
          /\ aacBuf = <<>>
    /\ aacOut = NoOut
    /\ aacPc = "start"

AacIdle ==
    /\ aacOp = "-"
    /\ aacArgs = <<>>
    /\ aacBuf = <<>>
    /\ aacOut = NoOut
    /\ aacPc = "idle"

\* create_adts_header(..., payload.len(), has_crc) followed by the payload
AacBuildFrame ==
    /\ aacOp = "roundtrip"
    /\ aacPc = "start"
    /\ aacBuf' = CreateAdtsHeader(aacArgs.codec_id, aacArgs.channels, aacArgs.sample_rate,
                                  Len(aacArgs.payload), aacArgs.has_crc)
                     \o aacArgs.payload
    /\ aacPc' = "built"
    /\ UNCHANGED <<aacOp, aacArgs, aacOut>>
    /\ UNCHANGED notAac

\* extract_aac_data on the buffer
AacExtract ==
    /\ \/ aacOp = "roundtrip" /\ aacPc = "built"
       \/ aacOp = "extract" /\ aacPc = "start"
    /\ aacOut' = ExtractAacData(aacBuf)
    /\ aacPc' = "done"
    /\ UNCHANGED <<aacOp, aacArgs, aacBuf>>
    /\ UNCHANGED notAac

\* ensure_adts_header on the buffer
AacEnsure ==
    /\ aacOp = "ensure"
    /\ aacPc = "start"
    /\ aacOut' = EnsureAdtsHeader(aacBuf, aacArgs.channels, aacArgs.sample_rate)
    /\ aacPc' = "done"
    /\ UNCHANGED <<aacOp, aacArgs, aacBuf>>
    /\ UNCHANGED notAac

\* create_adts_header(codec_id, channels, sample_rate, aac_frame_length,
\* has_crc): the header alone
AacCreateHeader ==
    /\ aacOp = "is_aac"
    /\ aacPc = "start"
    /\ aacBuf' = CreateAdtsHeader(aacArgs.codec_id, aacArgs.channels, aacArgs.sample_rate,
                                  aacArgs.aac_frame_length, aacArgs.has_crc)
    /\ aacPc' = "built"
    /\ UNCHANGED <<aacOp, aacArgs, aacOut>>
    /\ UNCHANGED notAac

\* is_aac on the header
AacIsAac ==
    /\ aacOp = "is_aac"
    /\ aacPc = "built"
    /\ aacOut' = BoolOut(IsAac(aacBuf))
    /\ aacPc' = "done"
    /\ UNCHANGED <<aacOp, aacArgs, aacBuf>>
    /\ UNCHANGED notAac

AacNext == AacBuildFrame \/ AacExtract \/ AacEnsure \/ AacCreateHeader \/ AacIsAac

(***************************************************************************)
(* flac.rs: BitReader, read_utf8 and decode_frame_header                   *)
(***************************************************************************)

\* bounds of the FLAC inputs
MaxMixedCont == 3
MaxCont == 11
MaxAfter == 3

\* BitReader::read_bit at bit position bp
ReadBit(d, bp) ==
    LET byte_index == bp \div 8
        bit_index == 7 - (bp % 8)
    IN  IF byte_index >= Len(d)
        THEN [ok |-> FALSE, value |-> 0, pos |-> bp]
        ELSE [ok |-> TRUE, value |-> BitAnd(Shr(d[byte_index + 1], bit_index), 1),
              pos |-> bp + 1]

RECURSIVE ReadLoop(_, _, _, _)
\* the loop of BitReader::read: num_bits more bits folded into result (at
\* most 16 bits are ever read at once, so the u32 never loses a bit)
ReadLoop(d, bp, num_bits, result) ==
    IF num_bits = 0 THEN [ok |-> TRUE, value |-> result, pos |-> bp]
    ELSE LET b == ReadBit(d, bp)
         IN  IF ~b.ok THEN [ok |-> FALSE, value |-> 0, pos |-> b.pos]
             ELSE ReadLoop(d, b.pos, num_bits - 1, BitOr(Shl(result, 1), b.value))

\* BitReader::read
Read(d, bp, num_bits) == ReadLoop(d, bp, num_bits, 0)

\* BitReader::skip
Skip(d, bp, num_bits) ==
    LET np == bp + num_bits
    IN  IF np \div 8 >= Len(d) THEN [ok |-> FALSE, pos |-> np] ELSE [ok |-> TRUE, pos |-> np]

SAMPLE_SIZE_TABLE == <<0, 8, 12, 0, 16, 20, 24, 32>>
FLAC_BLOCKSIZE_TABLE ==
    <<0, 192, 576, 1152, 2304, 4608, 0, 0, 256, 512, 1024, 2048, 4096, 8192, 16384, 32768>>
FLAC_SAMPLE_RATE_TABLE ==
    <<0, 88200, 176400, 192000, 8000, 16000, 22050, 24000, 32000, 44100, 48000, 96000>>

NoErr == [name |-> "-", code |-> 0]
FlacErr(name, code) == [name |-> name, code |-> code]

\* FLACFrameInfo::default(); frame_or_sample_num, a u64, is the set of its
\* one bits (bit 0 the least significant)
DefaultFrameInfo ==
    [is_var_size |-> FALSE, blocking_strategy |-> 0, block_size |-> 0, sample_rate |-> 0,
     ch_mode |-> 0, channels |-> 0, bps |-> 0, frame_or_sample_num |-> {}]

\* the one bits of the u64 ((b & 0x7F) as u64) << sh, for 0 <= sh < 64: bits
\* moved past bit 63 are lost
ShiftedBits(b, sh) ==
    {sh + k : k \in {j \in 0..6 : BitAnd(Shr(BitAnd(b, 127), j), 1) = 1 /\ sh + j <= 63}}

\* decode_frame_header from the sync code to the reserved bit: the frame
\* info and codes read, or the error.  A read of n bits that succeeds leaves
\* the reader n bits further, so the fields start at bits 0, 15, 16, 20, 24,
\* 28 and 31.
FixedFields(d) ==
    LET sync == Read(d, 0, 15)
        var == ReadBit(d, 15)
        bs == Read(d, 16, 4)
        sr == Read(d, 20, 4)
        ch == Read(d, 24, 4)
        bps == Read(d, 28, 3)
        res == ReadBit(d, 31)
        eoi == FlacErr("UnexpectedEndOfInput", 0)
        out(e, f, p) == [err |-> e, fi |-> f, bs_code |-> bs.value, sr_code |-> sr.value,
                         pos |-> p]
        fi1 == [DefaultFrameInfo EXCEPT !.is_var_size = (var.value = 1),
                                        !.blocking_strategy = var.value]
        fi2 == IF ch.value < 8
               THEN [fi1 EXCEPT !.channels = ch.value + 1, !.ch_mode = 0]
               ELSE [fi1 EXCEPT !.channels = 2, !.ch_mode = ch.value - 7]
        fi3 == [fi2 EXCEPT !.bps = SAMPLE_SIZE_TABLE[bps.value + 1]]
    IN  IF ~sync.ok THEN out(eoi, DefaultFrameInfo, sync.pos)
        ELSE IF sync.value # 32764 THEN out(FlacErr("InvalidSyncCode", 0), DefaultFrameInfo, sync.pos)
        ELSE IF ~var.ok THEN out(eoi, DefaultFrameInfo, var.pos)
        ELSE IF ~bs.ok THEN out(eoi, fi1, bs.pos)
        ELSE IF ~sr.ok THEN out(eoi, fi1, sr.pos)
        ELSE IF ~ch.ok THEN out(eoi, fi1, ch.pos)
        ELSE IF ch.value >= 11 THEN out(FlacErr("InvalidChannelMode", ch.value), fi1, ch.pos)
        ELSE IF ~bps.ok THEN out(eoi, fi2, bps.pos)
        ELSE IF bps.value = 3 THEN out(FlacErr("InvalidSampleSizeCode", 3), fi2, bps.pos)
        ELSE IF ~res.ok THEN out(eoi, fi3, res.pos)
        ELSE IF res.value = 1 THEN out(FlacErr("InvalidPadding", 0), fi3, res.pos)
        ELSE out(NoErr, fi3, res.pos)

\* the first four bytes of frame headers: a plain one (block size 4096,
\* 44100 Hz), block-size codes 6 and 7, sample-rate codes 12, 13 and 15,
\* block-size code 0, sample-size code 0 (bits per sample from STREAMINFO),
\* and one for each error of the fixed fields
FlacHeads ==
    { <<255, 248, 201, 24>>, <<255, 249, 105, 24>>, <<255, 248, 121, 24>>,
      <<255, 248, 201, 16>>,
      <<255, 248, 204, 24>>, <<255, 248, 125, 24>>, <<255, 248, 207, 24>>,
      <<255, 248, 9, 24>>,
      <<255, 240, 201, 24>>, <<255, 248, 201, 184>>, <<255, 248, 201, 22>>,
      <<255, 248, 201, 25>>, <<255, 248, 201>>, <<255>> }

Repeat(c, n) == [i \in 1..n |-> c]

\* the bytes of the frame/sample number: continuation bytes (top bit set),
\* then a final byte or the end of the input
ContPrefixes ==
    SeqsUpTo({128, 249}, MaxMixedCont)
    \cup {Repeat(c, n) : c \in {128, 249, 255}, n \in (MaxMixedCont + 1)..MaxCont}
FinalBytes == {<<>>, <<0>>, <<127>>}
\* every head with a short number and up to MaxAfter bytes after it, and
\* the plain head with every number
FlacInputs ==
    {h \o c \o f \o a :
        h \in FlacHeads, c \in SeqsUpTo({128, 249}, 1), f \in FinalBytes,
        a \in SeqsUpTo({0, 255}, MaxAfter)}
    \cup
    {<<255, 248, 201, 24>> \o c \o f \o a :
        c \in ContPrefixes, f \in FinalBytes, a \in SeqsUpTo({0, 255}, 1)}

\* BitReader::new and FLACFrameInfo::default
FlacInit ==
    /\ flacData \in FlacInputs
    /\ overflowChecks \in BOOLEAN
    /\ bit_position = 0
    /\ fi = DefaultFrameInfo
    /\ codes = [bs_code |-> 0, sr_code |-> 0]
    /\ value = {}
    /\ shift = 0
    /\ flacPc = "start"
    /\ flacErr = NoErr
    /\ shiftTrace = <<>>
    /\ streaminfo = <<>>

FlacIdle ==
    /\ flacData = <<>>
    /\ overflowChecks = FALSE
    /\ bit_position = 0
    /\ fi = DefaultFrameInfo
    /\ codes = [bs_code |-> 0, sr_code |-> 0]
    /\ value = {}
    /\ shift = 0
    /\ flacPc = "idle"
    /\ flacErr = NoErr
    /\ shiftTrace = <<>>
    /\ streaminfo = <<>>

\* decode_frame_header, lines 66-104: sync code to reserved bit
FlacFixedFields ==
    /\ flacPc = "start"
    /\ LET r == FixedFields(flacData)
       IN  /\ bit_position' = r.pos
           /\ fi' = r.fi
           /\ codes' = [bs_code |-> r.bs_code, sr_code |-> r.sr_code]
           /\ flacErr' = r.err
           /\ flacPc' = IF r.err = NoErr THEN "utf8" ELSE "err"
    /\ UNCHANGED <<flacData, overflowChecks, value, shift, shiftTrace, streaminfo>>
    /\ UNCHANGED notFlac

\* one iteration of read_utf8's loop on the reader at bp with the locals
\* value v and shift sh.  A left shift of the u64 by 64 or more panics in a
\* build with overflow checks and shifts by sh % 64 in one without.
Utf8Iteration(d, bp, v, sh, checks) ==
    LET r == Read(d, bp, 8)
        byte == r.value % 256
    IN  IF ~r.ok
        THEN [pc |-> "err", err |-> FlacErr("UnexpectedEndOfInput", 0), pos |-> r.pos,
              value |-> v, shift |-> sh, shifted |-> <<>>]
        ELSE IF sh = 36 /\ BitAnd(byte, 248) # 0
        THEN [pc |-> "err", err |-> FlacErr("UTF8DecodingError", 0), pos |-> r.pos,
              value |-> v, shift |-> sh, shifted |-> <<>>]
        ELSE IF sh >= 64 /\ checks
        THEN [pc |-> "panic", err |-> FlacErr("attempt to shift left with overflow", sh),
              pos |-> r.pos, value |-> v, shift |-> sh, shifted |-> <<sh>>]
        ELSE [pc |-> IF BitAnd(byte, 128) = 0 THEN "blocksize" ELSE "utf8",
              err |-> NoErr, pos |-> r.pos,
              value |-> v \cup ShiftedBits(byte, sh % 64), shift |-> sh + 7,
              shifted |-> <<sh>>]

\* read_utf8: one iteration of the loop; on the last one the value goes to
\* fi.frame_or_sample_num (decode_frame_header line 107)
FlacReadUtf8 ==
    /\ flacPc = "utf8"
    /\ LET r == Utf8Iteration(flacData, bit_position, value, shift, overflowChecks)
       IN  /\ bit_position' = r.pos
           /\ value' = r.value
           /\ shift' = r.shift
           /\ shiftTrace' = shiftTrace \o r.shifted
           /\ flacPc' = r.pc
           /\ flacErr' = r.err
           /\ fi' = IF r.pc = "blocksize" THEN [fi EXCEPT !.frame_or_sample_num = r.value]
                    ELSE fi
    /\ UNCHANGED <<flacData, overflowChecks, codes, streaminfo>>
    /\ UNCHANGED notFlac

\* the block size of decode_frame_header, lines 110-115, from the reader at
\* bp.  reader.read(16)? as u16 + 1 overflows the u16 for 0xFFFF: a panic
\* with overflow checks, 0 without.
BlockSize(d, bp, bs_code, checks) ==
    LET r8 == Read(d, bp, 8)
        r16 == Read(d, bp, 16)
        eoi == FlacErr("UnexpectedEndOfInput", 0)
    IN  CASE bs_code = 0 ->
               [pc |-> "err", err |-> FlacErr("ReservedBlocksizeCode", 0), pos |-> bp,
                block_size |-> 0]
          [] bs_code = 6 ->
               IF ~r8.ok THEN [pc |-> "err", err |-> eoi, pos |-> r8.pos, block_size |-> 0]
               ELSE [pc |-> "samplerate", err |-> NoErr, pos |-> r8.pos,
                     block_size |-> (r8.value % 65536) + 1]
          [] bs_code = 7 ->
               IF ~r16.ok THEN [pc |-> "err", err |-> eoi, pos |-> r16.pos, block_size |-> 0]
               ELSE IF (r16.value % 65536) + 1 > 65535
               THEN IF checks
                    THEN [pc |-> "panic", err |-> FlacErr("attempt to add with overflow", 0),
                          pos |-> r16.pos, block_size |-> 0]
                    ELSE [pc |-> "samplerate", err |-> NoErr, pos |-> r16.pos,
                          block_size |-> ((r16.value % 65536) + 1) % 65536]
               ELSE [pc |-> "samplerate", err |-> NoErr, pos |-> r16.pos,
                     block_size |-> (r16.value % 65536) + 1]
          [] OTHER ->
               [pc |-> "samplerate", err |-> NoErr, pos |-> bp,
                block_size |-> FLAC_BLOCKSIZE_TABLE[bs_code + 1]]

FlacBlockSize ==
    /\ flacPc = "blocksize"
    /\ LET r == BlockSize(flacData, bit_position, codes.bs_code, overflowChecks)
       IN  /\ bit_position' = r.pos
           /\ flacPc' = r.pc
           /\ flacErr' = r.err
           /\ fi' = IF r.pc = "samplerate" THEN [fi EXCEPT !.block_size = r.block_size]
                    ELSE fi
    /\ UNCHANGED <<flacData, overflowChecks, codes, value, shift, shiftTrace, streaminfo>>
    /\ UNCHANGED notFlac

\* the sample rate of decode_frame_header, lines 118-124
SampleRate(d, bp, sr_code) ==
    LET r8 == Read(d, bp, 8)
        r16 == Read(d, bp, 16)
        eoi == FlacErr("UnexpectedEndOfInput", 0)
    IN  CASE sr_code <= 11 ->
               [pc |-> "crc", err |-> NoErr, pos |-> bp,
                sample_rate |-> FLAC_SAMPLE_RATE_TABLE[sr_code + 1]]
          [] sr_code = 12 ->
               IF ~r8.ok THEN [pc |-> "err", err |-> eoi, pos |-> r8.pos, sample_rate |-> 0]
               ELSE [pc |-> "crc", err |-> NoErr, pos |-> r8.pos,
                     sample_rate |-> r8.value * 1000]
          [] sr_code = 13 ->
               IF ~r16.ok THEN [pc |-> "err", err |-> eoi, pos |-> r16.pos, sample_rate |-> 0]
               ELSE [pc |-> "crc", err |-> NoErr, pos |-> r16.pos, sample_rate |-> r16.value]
          [] sr_code = 14 ->
               IF ~r16.ok THEN [pc |-> "err", err |-> eoi, pos |-> r16.pos, sample_rate |-> 0]
               ELSE [pc |-> "crc", err |-> NoErr, pos |-> r16.pos,
                     sample_rate |-> r16.value * 10]
          [] OTHER ->
               [pc |-> "err", err |-> FlacErr("IllegalSampleRateCode", sr_code), pos |-> bp,
                sample_rate |-> 0]

FlacSampleRate ==
    /\ flacPc = "samplerate"
    /\ LET r == SampleRate(flacData, bit_position, codes.sr_code)
       IN  /\ bit_position' = r.pos
           /\ flacPc' = r.pc
           /\ flacErr' = r.err
           /\ fi' = IF r.pc = "crc" THEN [fi EXCEPT !.sample_rate = r.sample_rate] ELSE fi
    /\ UNCHANGED <<flacData, overflowChecks, codes, value, shift, shiftTrace, streaminfo>>
    /\ UNCHANGED notFlac

\* reader.skip(8)? and Ok(fi), lines 127-129
FlacSkipCrc ==
    /\ flacPc = "crc"
    /\ LET r == Skip(flacData, bit_position, 8)
       IN  /\ bit_position' = r.pos
           /\ flacPc' = IF r.ok THEN "ok" ELSE "err"
           /\ flacErr' = IF r.ok THEN NoErr ELSE FlacErr("UnexpectedEndOfInput", 0)
    /\ UNCHANGED <<flacData, overflowChecks, fi, codes, value, shift, shiftTrace, streaminfo>>
    /\ UNCHANGED notFlac

RECURSIVE BitsValue(_, _, _)
\* the n bits from bit lo up of a u64 held as the set of its one bits
BitsValue(bits, lo, n) ==
    IF n = 0 THEN 0
    ELSE (IF lo \in bits THEN 1 ELSE 0) + 2 * BitsValue(bits, lo + 1, n - 1)

\* pub fn create_streaminfo.  u32::from(channels) - 1 and u32::from(bps) - 1
\* underflow for 0: a panic with overflow checks, 2^32 - 1 without (7 and 31
\* under the masks).  combined is written byte by byte: the sample rate in
\* bits 31-12, channels - 1 in bits 11-9, bps - 1 in bits 8-4, bits 35-32 of
\* the sample number in bits 3-0.
CreateStreaminfo(frame_info, checks) ==
    LET block_size == <<frame_info.block_size \div 256, frame_info.block_size % 256>>
        rate == BitAnd(frame_info.sample_rate, 1048575)
        channels == IF frame_info.channels = 0 THEN 7 ELSE BitAnd(frame_info.channels - 1, 7)
        bps == IF frame_info.bps = 0 THEN 31 ELSE BitAnd(frame_info.bps - 1, 31)
        high == BitsValue(frame_info.frame_or_sample_num, 32, 4)
        combined ==
            << rate \div 4096,
               (rate \div 16) % 256,
               (rate % 16) * 16 + channels * 2 + (bps \div 16),
               (bps % 16) * 16 + high >>
        low == << BitsValue(frame_info.frame_or_sample_num, 24, 8),
                  BitsValue(frame_info.frame_or_sample_num, 16, 8),
                  BitsValue(frame_info.frame_or_sample_num, 8, 8),
                  BitsValue(frame_info.frame_or_sample_num, 0, 8) >>
        bytes == block_size \o block_size \o <<0, 0, 0>> \o <<0, 0, 0>> \o combined \o low
                     \o [i \in 1..16 |-> 0]
    IN  IF checks /\ (frame_info.channels = 0 \/ frame_info.bps = 0)
        THEN [pc |-> "streaminfo_panic",
              err |-> FlacErr("attempt to subtract with overflow", 0), bytes |-> <<>>]
        ELSE IF Len(bytes) # 34
        THEN [pc |-> "streaminfo_panic", err |-> FlacErr("assertion failed", Len(bytes)),
              bytes |-> <<>>]
        ELSE [pc |-> "streaminfo", err |-> NoErr, bytes |-> bytes]

\* create_streaminfo(&fi) on the frame info decode_frame_header returned
FlacCreateStreaminfo ==
    /\ flacPc = "ok"
    /\ LET r == CreateStreaminfo(fi, overflowChecks)
       IN  /\ flacPc' = r.pc
           /\ flacErr' = r.err
           /\ streaminfo' = r.bytes
    /\ UNCHANGED <<flacData, overflowChecks, bit_position, fi, codes, value, shift, shiftTrace>>
    /\ UNCHANGED notFlac

FlacNext ==
    \/ FlacFixedFields
    \/ FlacReadUtf8
    \/ FlacBlockSize
    \/ FlacSampleRate
    \/ FlacSkipCrc
    \/ FlacCreateStreaminfo

(***************************************************************************)
(* mp3.rs: parse_frame_header and find_frame                               *)
(***************************************************************************)

\* bounds of the MP3 inputs
MaxJunk == 5
MaxMp3Raw == 6

BITRATE_V1_L1 == <<32, 64, 96, 128, 160, 192, 224, 256, 288, 320, 352, 384, 416, 448>>
BITRATE_V1_L2 == <<32, 48, 56, 64, 80, 96, 112, 128, 160, 192, 224, 256, 320, 384>>
BITRATE_V1_L3 == <<32, 40, 48, 56, 64, 80, 96, 112, 128, 160, 192, 224, 256, 320>>
BITRATE_V2_L1 == <<32, 48, 56, 64, 80, 96, 112, 128, 144, 160, 176, 192, 224, 256>>
BITRATE_V2_L2_L3 == <<8, 16, 24, 32, 40, 48, 56, 64, 80, 96, 112, 128, 144, 160>>

\* fn bitrate_kbps: 0 stands for None (no table entry is 0)
BitrateKbps(version, layer, idx) ==
    IF idx = 0 \/ idx = 15 THEN 0
    ELSE LET table ==
                 CASE version = "V1" /\ layer = "LayerI" -> BITRATE_V1_L1
                   [] version = "V1" /\ layer = "LayerII" -> BITRATE_V1_L2
                   [] version = "V1" /\ layer = "LayerIII" -> BITRATE_V1_L3
                   [] version # "V1" /\ layer = "LayerI" -> BITRATE_V2_L1
                   [] OTHER -> BITRATE_V2_L2_L3
         IN  table[idx]

\* fn sample_rate: 0 stands for None
Mp3SampleRate(version, idx) ==
    CASE version = "V1" ->
           (CASE idx = 0 -> 44100 [] idx = 1 -> 48000 [] idx = 2 -> 32000 [] OTHER -> 0)
      [] version = "V2" ->
           (CASE idx = 0 -> 22050 [] idx = 1 -> 24000 [] idx = 2 -> 16000 [] OTHER -> 0)
      [] version = "V25" ->
           (CASE idx = 0 -> 11025 [] idx = 1 -> 12000 [] idx = 2 -> 8000 [] OTHER -> 0)

\* fn samples_per_frame
SamplesPerFrame(version, layer) ==
    CASE layer = "LayerI" -> 384
      [] layer = "LayerII" -> 1152
      [] layer = "LayerIII" /\ version = "V1" -> 1152
      [] OTHER -> 576

\* A mutant of FrameLengthBytes: the padding is not added.
FrameLengthBytesNoPadding(samples_per_frame, bitrate_kbps, sample_rate, layer, padding) ==
    LET samples == samples_per_frame
        bitrate == bitrate_kbps * 1000
    IN  (samples * bitrate) \div (sample_rate * 8)

\* fn frame_length_bytes
FrameLengthBytes(samples_per_frame, bitrate_kbps, sample_rate, layer, padding) ==
    LET samples == samples_per_frame
        bitrate == bitrate_kbps * 1000
        length == (samples * bitrate) \div (sample_rate * 8)
        padding_bytes == IF layer = "LayerI" /\ padding THEN 4
                         ELSE IF padding THEN 1
                         ELSE 0
    IN  length + padding_bytes

Mp3Err(e) ==
    [ok |-> FALSE, err |-> e, version |-> "-", layer |-> "-", bitrate_kbps |-> 0,
     sample_rate |-> 0, padding |-> FALSE, channel_mode |-> "-", frame_length |-> 0,
     samples_per_frame |-> 0]

\* pub fn parse_frame_header
ParseFrameHeader(input) ==
    IF Len(input) < 4 THEN Mp3Err("TooShort")
    ELSE
        LET b0 == input[1]
            b1 == input[2]
            b2 == input[3]
            b3 == input[4]
            vbits == BitAnd(Shr(b1, 3), 3)
            version == CASE vbits = 0 -> "V25" [] vbits = 2 -> "V2" [] vbits = 3 -> "V1"
                         [] OTHER -> "-"
            lbits == BitAnd(Shr(b1, 1), 3)
            layer == CASE lbits = 1 -> "LayerIII" [] lbits = 2 -> "LayerII"
                       [] lbits = 3 -> "LayerI" [] OTHER -> "-"
            bitrate_index == BitAnd(Shr(b2, 4), 15)
            bitrate_kbps == BitrateKbps(version, layer, bitrate_index)
            sample_rate_index == BitAnd(Shr(b2, 2), 3)
            sample_rate == Mp3SampleRate(version, sample_rate_index)
            padding == BitAnd(Shr(b2, 1), 1) = 1
            cbits == BitAnd(Shr(b3, 6), 3)
            channel_mode == CASE cbits = 0 -> "Stereo" [] cbits = 1 -> "JointStereo"
                              [] cbits = 2 -> "DualChannel" [] OTHER -> "Mono"
            emphasis == BitAnd(b3, 3)
            samples_per_frame == SamplesPerFrame(version, layer)
            frame_length ==
                FrameLengthBytes(samples_per_frame, bitrate_kbps, sample_rate, layer, padding)
        IN  IF b0 # 255 \/ BitAnd(b1, 224) # 224 THEN Mp3Err("InvalidSync")
            ELSE IF version = "-" THEN Mp3Err("ReservedVersion")
            ELSE IF layer = "-" THEN Mp3Err("ReservedLayer")
            ELSE IF bitrate_kbps = 0 THEN Mp3Err("BadBitrate")
            ELSE IF sample_rate = 0 THEN Mp3Err("BadSampleRate")
            ELSE IF emphasis = 2 THEN Mp3Err("ReservedEmphasis")
            ELSE [ok |-> TRUE, err |-> "-", version |-> version, layer |-> layer,
                  bitrate_kbps |-> bitrate_kbps, sample_rate |-> sample_rate,
                  padding |-> padding, channel_mode |-> channel_mode,
                  frame_length |-> frame_length, samples_per_frame |-> samples_per_frame]

\* Option<(usize, Mp3FrameHeader)>
NoFrame == [found |-> FALSE, offset |-> 0, header |-> Mp3Err("-")]
FoundFrame(o, h) == [found |-> TRUE, offset |-> o, header |-> h]

\* A mutant of LastOffset: the range of offsets excludes its end.
LastOffsetExclusive(d) == Len(d) - 5

\* the last offset of find_frame's loop, for offset in 0..=data.len() - 4
LastOffset(d) == Len(d) - 4

\* one pass of find_frame's loop at offset: the frame returned, the end of
\* the loop, or the next offset
FindFrameStep(d, offset) ==
    IF offset > LastOffset(d) THEN [pc |-> "done", offset |-> offset, out |-> NoFrame]
    ELSE LET header == ParseFrameHeader(Slice(d, offset, Len(d)))
         IN  IF header.ok /\ header.frame_length >= 16
             THEN [pc |-> "done", offset |-> offset, out |-> FoundFrame(offset, header)]
             ELSE [pc |-> "scan", offset |-> offset + 1, out |-> NoFrame]

Repeat0(n) == [i \in 1..n |-> 0]

\* a header (V1 Layer III 128 kbps 44.1 kHz, V2 Layer III 8 kbps 24 kHz)
\* padded with zeros to the frame size
Frame417 == <<255, 251, 144, 0>> \o Repeat0(413)
Frame24 == <<255, 243, 20, 0>> \o Repeat0(20)

\* leading zero bytes, then two identical frames
TwoFrameStreams ==
    {Repeat0(n) \o f \o f : n \in 0..MaxJunk, f \in {Frame417, Frame24}}

\* every 4-byte header with the sync bits set, three fourth bytes, and
\* inputs with a broken sync or too short
Mp3Headers ==
    {<<255, b1, b2, b3>> : b1 \in 224..255, b2 \in 0..255, b3 \in {0, 66, 193}}
    \cup {<<254, 251, 144, 0>>, <<255, 27, 144, 0>>, <<255, 251, 144>>, <<>>}

Mp3Init ==
    /\ \/ /\ mp3Op = "parse"
          /\ mp3Data \in Mp3Headers
       \/ /\ mp3Op = "find"
          /\ mp3Data \in TwoFrameStreams \cup SeqsUpTo({0, 255, 251, 144}, MaxMp3Raw)
    /\ mp3Offset = 0
    /\ mp3Out = NoFrame
    /\ mp3Pc = "start"

Mp3Idle ==
    /\ mp3Op = "-"
    /\ mp3Data = <<>>
    /\ mp3Offset = 0
    /\ mp3Out = NoFrame
    /\ mp3Pc = "idle"

\* parse_frame_header on the input
Mp3Parse ==
    /\ mp3Op = "parse"
    /\ mp3Pc = "start"
    /\ mp3Out' = [NoFrame EXCEPT !.header = ParseFrameHeader(mp3Data)]
    /\ mp3Pc' = "done"
    /\ UNCHANGED <<mp3Op, mp3Data, mp3Offset>>
    /\ UNCHANGED notMp3

\* find_frame, lines 69-71: the length check
Mp3FindEnter ==
    /\ mp3Op = "find"
    /\ mp3Pc = "start"
    /\ mp3Pc' = IF Len(mp3Data) < 4 THEN "done" ELSE "scan"
    /\ UNCHANGED <<mp3Op, mp3Data, mp3Offset, mp3Out>>
    /\ UNCHANGED notMp3

\* find_frame, lines 73-81: one pass of the loop
Mp3FindStep ==
    /\ mp3Op = "find"
    /\ mp3Pc = "scan"
    /\ LET r == FindFrameStep(mp3Data, mp3Offset)
       IN  /\ mp3Pc' = r.pc
           /\ mp3Offset' = r.offset
           /\ mp3Out' = r.out
    /\ UNCHANGED <<mp3Op, mp3Data>>
    /\ UNCHANGED notMp3

Mp3Next == Mp3Parse \/ Mp3FindEnter \/ Mp3FindStep

(***************************************************************************)
(* mp4.rs: next_box and find_child                                         *)
(***************************************************************************)

\* bounds of the MP4 inputs
MaxBoxes == 2
MaxContent == 1
MaxPastEnd == 2

\* u32::from_be_bytes(data[p..p + 4])
U32FromBe(d, p) ==
    16777216 * d[p + 1] + 65536 * d[p + 2] + 256 * d[p + 3] + d[p + 4]

\* Option<([u8; 4], &[u8], usize)>
NoBox == [some |-> FALSE, name |-> <<>>, content |-> <<>>, next |-> 0]
SomeBox(n, c, e) == [some |-> TRUE, name |-> n, content |-> c, next |-> e]

\* A mutant of NextBox: a declared size below the header length is let
\* through.
NextBoxNoMinimumSize(d, offset) ==
    IF offset + 8 > Len(d) THEN NoBox
    ELSE
        LET size32 == U32FromBe(d, offset)
            header_len == IF size32 = 1 THEN 16 ELSE 8
            high == IF size32 = 1 /\ offset + 16 <= Len(d) THEN U32FromBe(d, offset + 8) ELSE 0
            size == IF size32 = 1 THEN U32FromBe(d, offset + 12)
                    ELSE IF size32 = 0 THEN Len(d) - offset
                    ELSE size32
            end == offset + size
        IN  IF size32 = 1 /\ offset + 16 > Len(d) THEN NoBox
            ELSE IF high # 0 THEN NoBox
            ELSE IF end > Len(d) THEN NoBox
            ELSE SomeBox(Slice(d, offset + 4, offset + 8),
                         Slice(d, offset + header_len, end), end)

\* fn next_box.  The 64-bit size is read as its high and low 32 bits: with
\* a high half that is not 0 the size is 2^32 or more, beyond every buffer
\* here, so that offset.checked_add(size) fails or end > data.len() holds,
\* and nothing is returned either way.
NextBox(d, offset) ==
    IF offset + 8 > Len(d) THEN NoBox
    ELSE
        LET size32 == U32FromBe(d, offset)
            header_len == IF size32 = 1 THEN 16 ELSE 8
            high == IF size32 = 1 /\ offset + 16 <= Len(d) THEN U32FromBe(d, offset + 8) ELSE 0
            size == IF size32 = 1 THEN U32FromBe(d, offset + 12)
                    ELSE IF size32 = 0 THEN Len(d) - offset
                    ELSE size32
            end == offset + size
        IN  IF size32 = 1 /\ offset + 16 > Len(d) THEN NoBox
            ELSE IF high # 0 THEN NoBox
            ELSE IF size < header_len THEN NoBox
            ELSE IF end > Len(d) THEN NoBox
            ELSE SomeBox(Slice(d, offset + 4, offset + 8),
                         Slice(d, offset + header_len, end), end)

\* one pass of find_child's loop at offset: the content returned, the end
\* of the loop, or the next offset
FindChildStep(d, target, offset) ==
    LET box == NextBox(d, offset)
    IN  IF ~box.some THEN [pc |-> "done", offset |-> offset, out |-> NoBox, got |-> <<>>]
        ELSE IF box.name = target
        THEN [pc |-> "done", offset |-> offset, out |-> box, got |-> <<offset>>]
        ELSE [pc |-> "loop", offset |-> box.next, out |-> NoBox, got |-> <<offset>>]

\* type codes
Moov == <<109, 111, 111, 118>>
Free == <<102, 114, 101, 101>>

\* well-formed boxes: an 8-byte header with 0 or 1 content bytes, a 16-byte
\* header with no content
GoodBoxes ==
    {<<0, 0, 0, 8>> \o t : t \in {Moov, Free}}
    \cup {<<0, 0, 0, 9>> \o t \o <<7>> : t \in {Moov, Free}}
    \cup {<<0, 0, 0, 1>> \o t \o <<0, 0, 0, 0, 0, 0, 0, 16>> : t \in {Moov, Free}}

\* (every byte of these inputs is below 128, so that a 32-bit value read at
\* any offset stays below 2^31)
\* a last box of any kind: declared sizes 0, below the header length, exact,
\* past the end; 64-bit sizes below 16, exact, past the end, 2^32 and more;
\* truncated headers
LastBoxes ==
    {sz \o t \o c :
        sz \in {<<0, 0, 0, 0>>, <<0, 0, 0, 4>>, <<0, 0, 0, 8>>, <<0, 0, 0, 9>>,
                <<0, 0, 0, 10>>, <<0, 1, 0, 0>>, <<127, 0, 0, 0>>},
        t \in {Moov, Free}, c \in SeqsUpTo({7}, MaxContent)}
    \cup
    {<<0, 0, 0, 1>> \o t \o ext \o c :
        t \in {Moov, Free},
        ext \in {<<0, 0, 0, 0, 0, 0, 0, 15>>, <<0, 0, 0, 0, 0, 0, 0, 16>>,
                 <<0, 0, 0, 0, 0, 0, 0, 17>>, <<0, 0, 0, 1, 0, 0, 0, 16>>,
                 <<0, 0, 0, 0>>},
        c \in SeqsUpTo({7}, MaxContent)}
    \cup {<<>>, <<0, 0, 0>>}

RECURSIVE Concat(_)
Concat(ss) == IF ss = <<>> THEN <<>> ELSE Head(ss) \o Concat(Tail(ss))

\* up to n well-formed boxes and a last box
BoxBuffers(n) == {Concat(g) \o l : g \in SeqsUpTo(GoodBoxes, n), l \in LastBoxes}

BoxInit ==
    /\ \/ /\ boxOp = "next_box"
          /\ boxData \in BoxBuffers(1)
          /\ boxTarget = <<>>
          /\ boxOffset \in 0..(Len(boxData) + MaxPastEnd)
       \/ /\ boxOp = "find_child"
          /\ boxData \in BoxBuffers(MaxBoxes)
          /\ boxTarget \in {Moov, Free}
          /\ boxOffset = 0
    /\ boxOut = NoBox
    /\ boxPc = "start"
    /\ boxTrail = <<>>

BoxIdle ==
    /\ boxOp = "-"
    /\ boxData = <<>>
    /\ boxTarget = <<>>
    /\ boxOffset = 0
    /\ boxOut = NoBox
    /\ boxPc = "idle"
    /\ boxTrail = <<>>

\* next_box(data, offset)
BoxNextBox ==
    /\ boxOp = "next_box"
    /\ boxPc = "start"
    /\ boxOut' = NextBox(boxData, boxOffset)
    /\ boxPc' = "done"
    /\ UNCHANGED <<boxOp, boxData, boxTarget, boxOffset, boxTrail>>
    /\ UNCHANGED notBox

\* find_child: one pass of the loop
BoxFindChild ==
    /\ boxOp = "find_child"
    /\ boxPc \in {"start", "loop"}
    /\ LET r == FindChildStep(boxData, boxTarget, boxOffset)
       IN  /\ boxPc' = r.pc
           /\ boxOffset' = r.offset
           /\ boxOut' = r.out
           /\ boxTrail' = boxTrail \o r.got
    /\ UNCHANGED <<boxOp, boxData, boxTarget>>
    /\ UNCHANGED notBox

BoxNext == BoxNextBox \/ BoxFindChild

(***************************************************************************)
(* mp4.rs: detect_audio_track                                              *)
(***************************************************************************)

\* bound of the MP4 files: the number of trak boxes in moov
MaxTraks == 2

\* type codes and handler types
Ftyp == <<102, 116, 121, 112>>
Trak == <<116, 114, 97, 107>>
Mdia == <<109, 100, 105, 97>>
Hdlr == <<104, 100, 108, 114>>
Minf == <<109, 105, 110, 102>>
Stbl == <<115, 116, 98, 108>>
Stsd == <<115, 116, 115, 100>>
Soun == <<115, 111, 117, 110>>
Vide == <<118, 105, 100, 101>>
\* sample entry formats
Mp4a == <<109, 112, 52, 97>>
OpusCode == <<79, 112, 117, 115>>
Avc1 == <<97, 118, 99, 49>>

\* Option<AudioType>
NoAudio == [some |-> FALSE, audio_type |-> "-"]
SomeAudio(t) == [some |-> TRUE, audio_type |-> t]

\* fn fourcc_to_audio_type
FourccToAudioType(code) ==
    CASE code = Mp4a -> "AAC"
      [] code \in {<<102, 76, 97, 67>>, <<70, 76, 65, 67>>} -> "FLAC"
      [] code \in {OpusCode, <<111, 112, 117, 115>>} -> "Opus"
      [] code \in {<<109, 112, 51, 32>>, <<46, 109, 112, 51>>} -> "MP3"
      [] OTHER -> "Unknown"

RECURSIVE FindChild(_, _, _)
\* fn find_child, its loop entered at offset (0 in the source)
FindChild(d, target, offset) ==
    LET r == FindChildStep(d, target, offset)
    IN  IF r.pc = "done" THEN r.out ELSE FindChild(d, target, r.offset)

\* pub fn is_mp4
IsMp4(d) ==
    LET box == NextBox(d, 0)
    IN  box.some /\ box.name = Ftyp

\* A mutant of IsAudioHandler: every hdlr of 12 bytes or more counts as an
\* audio handler.
IsAudioHandlerAnyType(mdia) ==
    LET hdlr == FindChild(mdia, Hdlr, 0)
    IN  IF ~hdlr.some THEN FALSE
        ELSE IF Len(hdlr.content) < 12 THEN FALSE
        ELSE TRUE

\* fn is_audio_handler
IsAudioHandler(mdia) ==
    LET hdlr == FindChild(mdia, Hdlr, 0)
    IN  IF ~hdlr.some THEN FALSE
        ELSE IF Len(hdlr.content) < 12 THEN FALSE
        ELSE Slice(hdlr.content, 8, 12) = Soun

\* fn parse_stsd_entry
ParseStsdEntry(stsd, offset) ==
    IF offset + 8 > Len(stsd) THEN [some |-> FALSE, format |-> <<>>, next |-> 0]
    ELSE LET size == U32FromBe(stsd, offset)
         IN  IF size < 8 \/ offset + size > Len(stsd)
             THEN [some |-> FALSE, format |-> <<>>, next |-> 0]
             ELSE [some |-> TRUE, format |-> Slice(stsd, offset + 4, offset + 8),
                   next |-> offset + size]

RECURSIVE ParseStsdLoop(_, _, _)
\* the for loop of parse_stsd with left entries to go
ParseStsdLoop(stsd, offset, left) ==
    IF left = 0 THEN NoAudio
    ELSE LET e == ParseStsdEntry(stsd, offset)
             audio_type == FourccToAudioType(e.format)
         IN  IF ~e.some THEN NoAudio
             ELSE IF audio_type # "Unknown" THEN SomeAudio(audio_type)
             ELSE ParseStsdLoop(stsd, e.next, left - 1)

\* fn parse_stsd
ParseStsd(stsd) ==
    IF Len(stsd) < 8 THEN NoAudio
    ELSE ParseStsdLoop(stsd, 8, U32FromBe(stsd, 4))

\* detect_audio_track, lines 10-14: the content of moov, or the return of
\* None
DetectEnter(d) ==
    LET moov == FindChild(d, Moov, 0)
    IN  IF ~IsMp4(d) THEN [pc |-> "done", moov |-> <<>>]
        ELSE IF ~moov.some THEN [pc |-> "done", moov |-> <<>>]
        ELSE [pc |-> "loop", moov |-> moov.content]

\* the children parse_trak goes down through, and where it is after each
ChildOf == [trak |-> Mdia, minf |-> Minf, stbl |-> Stbl, stsd |-> Stsd]
AfterChild == [trak |-> "hdlr", minf |-> "stbl", stbl |-> "stsd", stsd |-> "entries"]

\* a box with an 8-byte header around content
MakeBox(name, content) ==
    <<0, 0, (8 + Len(content)) \div 256, (8 + Len(content)) % 256>> \o name \o content

\* the hdlr box of a track: none, one with 11 content bytes, a video handler,
\* a sound handler (version/flags, pre_defined, handler_type)
HdlrKinds == {"absent", "short", "vide", "soun"}
HdlrBox(kind) ==
    CASE kind = "absent" -> <<>>
      [] kind = "short" -> MakeBox(Hdlr, <<0, 0, 0, 0, 0, 0, 0, 0, 115, 111, 117>>)
      [] kind = "vide" -> MakeBox(Hdlr, <<0, 0, 0, 0, 0, 0, 0, 0>> \o Vide)
      [] kind = "soun" -> MakeBox(Hdlr, <<0, 0, 0, 0, 0, 0, 0, 0>> \o Soun)

\* the stsd box with one 8-byte sample entry per format
StsdBox(formats) ==
    MakeBox(Stsd, <<0, 0, 0, 0, 0, 0, 0, Len(formats)>>
                      \o Concat([i \in 1..Len(formats) |-> <<0, 0, 0, 8>> \o formats[i]]))

\* trak > mdia > (hdlr, minf > stbl > stsd)
TrakBox(t) ==
    MakeBox(Trak,
        MakeBox(Mdia, HdlrBox(t.hdlr) \o MakeBox(Minf, MakeBox(Stbl, StsdBox(t.formats)))))

FormatLists == {<<>>, <<Mp4a>>, <<Avc1>>, <<Avc1, OpusCode>>, <<Avc1, Avc1>>}
TrakShapes == [hdlr : HdlrKinds, formats : FormatLists]

\* a file: ftyp or not, then the tracks after a free box, in moov or bare
TrkShapes == [ftyp : BOOLEAN, moov : BOOLEAN, traks : SeqsUpTo(TrakShapes, MaxTraks)]
TrkFile(sh) ==
    LET traks == Concat([i \in 1..Len(sh.traks) |-> TrakBox(sh.traks[i])])
        inner == MakeBox(Free, <<7>>) \o traks
    IN  (IF sh.ftyp THEN MakeBox(Ftyp, <<105, 115, 111, 109>>) ELSE <<>>)
            \o (IF sh.moov THEN MakeBox(Moov, inner) ELSE inner)

TrkInit ==
    /\ trkShape \in TrkShapes
    /\ trkData = TrkFile(trkShape)
    /\ trkMoov = <<>>
    /\ trkOffset = 0
    /\ trkBox = NoBox
    /\ trkIn = <<>>
    /\ trkOut = NoAudio
    /\ trkPc = "start"

TrkIdle ==
    /\ trkShape = <<>>
    /\ trkData = <<>>
    /\ trkMoov = <<>>
    /\ trkOffset = 0
    /\ trkBox = NoBox
    /\ trkIn = <<>>
    /\ trkOut = NoAudio
    /\ trkPc = "idle"

\* detect_audio_track up to the loop (lines 10-16)
TrkEnter ==
    /\ trkPc = "start"
    /\ LET r == DetectEnter(trkData)
       IN  /\ trkPc' = r.pc
           /\ trkMoov' = r.moov
    /\ UNCHANGED <<trkData, trkShape, trkOffset, trkBox, trkIn, trkOut>>
    /\ UNCHANGED notTrk

\* detect_audio_track, lines 17-18: the loop takes the next box of moov; a
\* trak goes to parse_trak, another box is stepped over (line 23), and with
\* no box None is returned (line 26)
TrkLoop ==
    /\ trkPc = "loop"
    /\ trkBox' = NextBox(trkMoov, trkOffset)
    /\ trkPc' = IF ~trkBox'.some THEN "done" ELSE IF trkBox'.name = Trak THEN "trak" ELSE "loop"
    /\ trkOffset' = IF trkBox'.some /\ trkBox'.name # Trak THEN trkBox'.next ELSE trkOffset
    /\ trkIn' = IF trkBox'.some /\ trkBox'.name = Trak THEN trkBox'.content ELSE trkIn
    /\ UNCHANGED <<trkData, trkShape, trkMoov, trkOut>>
    /\ UNCHANGED notTrk

\* parse_trak, lines 30 and 35-37: find_child(..)? for mdia, minf, stbl and
\* stsd; without the child parse_trak returns None and the loop goes on at
\* next_offset (line 23)
TrkChild ==
    /\ trkPc \in DOMAIN ChildOf
    /\ LET child == FindChild(trkIn, ChildOf[trkPc], 0)
       IN  /\ trkIn' = IF child.some THEN child.content ELSE trkIn
           /\ trkPc' = IF child.some THEN AfterChild[trkPc] ELSE "loop"
           /\ trkOffset' = IF child.some THEN trkOffset ELSE trkBox.next
    /\ UNCHANGED <<trkData, trkShape, trkMoov, trkBox, trkOut>>
    /\ UNCHANGED notTrk

\* parse_trak, lines 31-33: is_audio_handler(mdia), or None
TrkHandler ==
    /\ trkPc = "hdlr"
    /\ trkPc' = IF IsAudioHandler(trkIn) THEN "minf" ELSE "loop"
    /\ trkOffset' = IF IsAudioHandler(trkIn) THEN trkOffset ELSE trkBox.next
    /\ UNCHANGED <<trkData, trkShape, trkMoov, trkBox, trkIn, trkOut>>
    /\ UNCHANGED notTrk

\* parse_trak, line 39: parse_stsd(stsd); an audio type is returned from
\* detect_audio_track (line 20), without one the loop goes on (line 23)
TrkEntries ==
    /\ trkPc = "entries"
    /\ trkOut' = ParseStsd(trkIn)
    /\ trkPc' = IF trkOut'.some THEN "done" ELSE "loop"
    /\ trkOffset' = IF trkOut'.some THEN trkOffset ELSE trkBox.next
    /\ UNCHANGED <<trkData, trkShape, trkMoov, trkBox, trkIn>>
    /\ UNCHANGED notTrk

TrkNext == TrkEnter \/ TrkLoop \/ TrkChild \/ TrkHandler \/ TrkEntries

(***************************************************************************)
(* flac.rs: split_flac_frames and extract_flac_frame                       *)
(***************************************************************************)

\* bound of the buffers searched for sync codes
MaxSyncLen == 5

\* the byte values of those buffers: 0xFF, second sync bytes 0xF8 and 0xFB,
\* 0xFC (one bit off a second sync byte) and 0
SyncBytes == {255, 248, 251, 252, 0}

\* results: a slice, the frames, or a panic of the call
NoResult == [kind |-> "-", bytes |-> <<>>, msg |-> "-"]
SliceResult(b) == [kind |-> "Slice", bytes |-> b, msg |-> "-"]
FramesResult(fs) == [kind |-> "Frames", bytes |-> fs, msg |-> "-"]
PanicResult(m) == [kind |-> "Panic", bytes |-> <<>>, msg |-> m]

\* A mutant of IsFlacSync: the second byte is compared without the mask.
IsFlacSyncExact(slice) ==
    Len(slice) >= 2 /\ slice[1] = 255 /\ slice[2] = 248

\* fn is_flac_sync (inside split_flac_frames)
IsFlacSync(slice) ==
    Len(slice) >= 2 /\ slice[1] = 255 /\ BitAnd(slice[2], 252) = 248

RECURSIVE NextFrameStart(_, _)
\* the inner loop of split_flac_frames, lines 209-214: the value of
\* end_index when it ends
NextFrameStart(d, end_index) ==
    IF end_index < Len(d)
    THEN IF IsFlacSync(Slice(d, end_index, Len(d))) THEN end_index
         ELSE NextFrameStart(d, end_index + 1)
    ELSE end_index

\* one pass of the outer loop of split_flac_frames, lines 205-225
SplitStep(d, start, fs) ==
    IF IsFlacSync(Slice(d, start, Len(d)))
    THEN LET end_index == NextFrameStart(d, start + 1)
         IN  [start_index |-> end_index, frames |-> Append(fs, Slice(d, start, end_index))]
    ELSE [start_index |-> start + 1, frames |-> fs]

RECURSIVE ExtractLoop(_, _, _)
\* the for loop of extract_flac_frame over i..last (last exclusive)
ExtractLoop(d, i, last) ==
    IF i >= last THEN SliceResult(<<>>)
    ELSE IF i + 1 > Len(d) THEN PanicResult("index out of bounds")
    ELSE IF d[i + 1] = 255 /\ BitAnd(d[i + 2], 252) = 248 THEN SliceResult(Slice(d, i, Len(d)))
    ELSE ExtractLoop(d, i + 1, last)

\* pub fn extract_flac_frame.  data.len() - 1 underflows on the empty
\* buffer: a panic with overflow checks; without them the range is
\* 0..usize::MAX and data[0] is out of bounds.
ExtractFlacFrame(d, checks) ==
    IF Len(d) = 0
    THEN IF checks THEN PanicResult("attempt to subtract with overflow")
         ELSE PanicResult("index out of bounds")
    ELSE ExtractLoop(d, 0, Len(d) - 1)

FrInit ==
    /\ frOp \in {"extract", "split"}
    /\ frData \in SeqsUpTo(SyncBytes, MaxSyncLen)
    /\ frChecks \in BOOLEAN
    /\ start_index = 0
    /\ frames = <<>>
    /\ frOut = NoResult
    /\ frPc = "start"

FrIdle ==
    /\ frOp = "-"
    /\ frData = <<>>
    /\ frChecks = FALSE
    /\ start_index = 0
    /\ frames = <<>>
    /\ frOut = NoResult
    /\ frPc = "idle"

\* extract_flac_frame(data)
FrExtract ==
    /\ frOp = "extract"
    /\ frPc = "start"
    /\ frOut' = ExtractFlacFrame(frData, frChecks)
    /\ frPc' = "done"
    /\ UNCHANGED <<frOp, frData, frChecks, start_index, frames>>
    /\ UNCHANGED notFr

\* split_flac_frames: one pass of the outer loop
FrSplitStep ==
    /\ frOp = "split"
    /\ frPc \in {"start", "loop"}
    /\ start_index < Len(frData)
    /\ LET r == SplitStep(frData, start_index, frames)
       IN  /\ start_index' = r.start_index
           /\ frames' = r.frames
    /\ frPc' = "loop"
    /\ UNCHANGED <<frOp, frData, frChecks, frOut>>
    /\ UNCHANGED notFr

\* split_flac_frames: the loop ends and frames is returned
FrSplitReturn ==
    /\ frOp = "split"
    /\ frPc \in {"start", "loop"}
    /\ ~(start_index < Len(frData))
    /\ frOut' = FramesResult(frames)
    /\ frPc' = "done"
    /\ UNCHANGED <<frOp, frData, frChecks, start_index, frames>>
    /\ UNCHANGED notFr

FrNext == FrExtract \/ FrSplitStep \/ FrSplitReturn

(***************************************************************************)
(* h264.rs: is_nalu                                                        *)
(***************************************************************************)

\* bound of the buffers tested for a start code
MaxNaluLen == 7

\* results of is_nalu
NoVerdict == "-"

\* pub fn is_nalu: data.windows(3).any(..), the window at k being
\* data[k..k + 3]; the guard of the second arm reads data[3], byte 3 of the
\* whole buffer
IsNalu(d) ==
    IF Len(d) < 3 THEN FALSE
    ELSE \E k \in 0..(Len(d) - 3) :
             LET window == Slice(d, k, k + 3)
             IN  \/ window = <<0, 0, 1>>
                 \/ window = <<0, 0, 0>> /\ Len(d) >= 4 /\ d[4] = 1

NaluInit ==
    /\ naluData \in SeqsUpTo({0, 1, 255}, MaxNaluLen)
    /\ naluOut = NoVerdict
    /\ naluPc = "start"

NaluIdle ==
    /\ naluData = <<>>
    /\ naluOut = NoVerdict
    /\ naluPc = "idle"

\* is_nalu(data)
NaluCheck ==
    /\ naluPc = "start"
    /\ naluOut' = IsNalu(naluData)
    /\ naluPc' = "done"
    /\ UNCHANGED naluData
    /\ UNCHANGED notNalu

NaluNext == NaluCheck

(***************************************************************************)
(* Specifications, one per component                                       *)
(***************************************************************************)

InitChunk ==
    ChunkInit /\ AacIdle /\ FlacIdle /\ Mp3Idle /\ BoxIdle
        /\ TrkIdle /\ FrIdle /\ NaluIdle
SpecChunk == InitChunk /\ [][ChunkNext]_vars

InitAac ==
    AacInit /\ ChunkIdle /\ FlacIdle /\ Mp3Idle /\ BoxIdle
        /\ TrkIdle /\ FrIdle /\ NaluIdle
SpecAac == InitAac /\ [][AacNext]_vars

InitFlac ==
    FlacInit /\ ChunkIdle /\ AacIdle /\ Mp3Idle /\ BoxIdle
        /\ TrkIdle /\ FrIdle /\ NaluIdle
SpecFlac == InitFlac /\ [][FlacNext]_vars

InitMp3 ==
    Mp3Init /\ ChunkIdle /\ AacIdle /\ FlacIdle /\ BoxIdle
        /\ TrkIdle /\ FrIdle /\ NaluIdle
SpecMp3 == InitMp3 /\ [][Mp3Next]_vars

InitBox ==
    BoxInit /\ ChunkIdle /\ AacIdle /\ FlacIdle /\ Mp3Idle
        /\ TrkIdle /\ FrIdle /\ NaluIdle
SpecBox == InitBox /\ [][BoxNext]_vars

InitTrk ==
    TrkInit /\ ChunkIdle /\ AacIdle /\ FlacIdle /\ Mp3Idle
        /\ BoxIdle /\ FrIdle /\ NaluIdle
SpecTrack == InitTrk /\ [][TrkNext]_vars

InitFr ==
    FrInit /\ ChunkIdle /\ AacIdle /\ FlacIdle /\ Mp3Idle
        /\ BoxIdle /\ TrkIdle /\ NaluIdle
SpecFrames == InitFr /\ [][FrNext]_vars

InitNalu ==
    NaluInit /\ ChunkIdle /\ AacIdle /\ FlacIdle /\ Mp3Idle
        /\ BoxIdle /\ TrkIdle /\ FrIdle
SpecNalu == InitNalu /\ [][NaluNext]_vars

(***************************************************************************)
(* Claims about the chunk iterator                                         *)
(***************************************************************************)

\* C1: an error item is terminal: once next() has yielded an error item,
\* every later call of next() yields end-of-sequence (None), so the error is
\* the last item of the sequence.
C1_ErrorIsTerminal ==
    \A i \in 1..Len(items) :
        IsErr(items[i]) => \A j \in (i + 1)..Len(items) : items[j] = NoneItem

\* the payloads of the Ok items of a sequence of items
RECURSIVE OkChunks(_)
OkChunks(its) ==
    IF its = <<>> THEN <<>>
    ELSE IF Head(its).kind = "Ok" THEN <<Head(its).chunk>> \o OkChunks(Tail(its))
    ELSE OkChunks(Tail(its))

\* C2: over the concatenation of k records the iterator yields exactly the k
\* items Ok(i, payload_i), i = 0..k-1, in buffer order and then None; and a
\* sequence ends with None, with no error item before it, only when 0 bytes
\* remain and the buffer is exactly the encoding of the payloads yielded.
C2_RecordsYieldedInOrder ==
    /\ recs # NoRecs =>
           \A i \in 1..Len(items) :
               items[i] = IF i <= Len(recs) THEN OkItem(i - 1, recs[i]) ELSE NoneItem
    /\ (items # <<>> /\ items[Len(items)] = NoneItem
            /\ \A i \in 1..Len(items) : ~IsErr(items[i])) =>
           /\ pos = Len(data)
           /\ data = EncodeRecords(OkChunks(items))
           /\ \A i \in 1..Len(items) :
                  items[i].kind = "Ok" =>
                      /\ items[i].index = i - 1
                      /\ \A j \in 1..i : items[j].kind = "Ok"

\* two non-empty records have been yielded with indices 0 and 1, then None
C2_Witness ==
    /\ recs # NoRecs
    /\ Len(recs) = 2
    /\ recs[1] # <<>>
    /\ recs[2] # <<>>
    /\ Len(items) = 3
    /\ items[2] = OkItem(1, recs[2])
    /\ items[3] = NoneItem

(***************************************************************************)
(* Claims about the ADTS codec                                             *)
(***************************************************************************)

AdtsHeaderLen(has_crc) == IF has_crc THEN 9 ELSE 7

RoundTripDone == aacOp = "roundtrip" /\ aacPc = "done"

\* C3 as stated: for every profile code, channel count <= 7, supported sample
\* rate, has_crc and payload of any length, extract_aac_data of the
\* synthesized header followed by the payload returns exactly the payload.
C3_RoundTripEveryLength ==
    RoundTripDone => aacOut = SomeOut(aacArgs.payload)

\* C3 amended: the round trip returns exactly the payload whenever the
\* payload and its header fit the 13-bit frame-length field, that is
\* len(payload) + header length (7, or 9 with CRC) <= 8191.
C3_RoundTripWithinFrameLengthField ==
    (RoundTripDone
        /\ Len(aacArgs.payload) + AdtsHeaderLen(aacArgs.has_crc) <= MaxFrameLength) =>
        aacOut = SomeOut(aacArgs.payload)

\* the largest payload that fits beside a CRC header has made the round trip
C3_Witness ==
    /\ RoundTripDone
    /\ aacArgs.has_crc
    /\ Len(aacArgs.payload) = MaxFrameLength - 9
    /\ Len(aacBuf) = MaxFrameLength
    /\ aacOut = SomeOut(aacArgs.payload)

\* C4: ensure_adts_header never fails: for every payload it returns a byte
\* sequence, the payload unchanged when extract_aac_data finds a header in
\* it, and otherwise a 7-byte header followed by the payload without its
\* first two bytes.
C4_EnsureNeverFails ==
    (aacOp = "ensure" /\ aacPc = "done") =>
        /\ aacOut.kind = "Bytes"
        /\ ExtractAacData(aacBuf).kind = "Some" => aacOut.bytes = aacBuf
        /\ ExtractAacData(aacBuf).kind = "None" =>
               /\ Len(aacOut.bytes) = 7 + Len(aacBuf) - 2
               /\ SubSeq(aacOut.bytes, 8, Len(aacOut.bytes)) = Slice(aacBuf, 2, Len(aacBuf))

\* C5: extract_aac_data is safe on every buffer: it returns nothing or the
\* slice [header_size, frame_length) with header_size <= frame_length <=
\* len(buffer), and never faults on a declared frame length below the header
\* size.
C5_ExtractIsSafe ==
    (aacOp = "extract" /\ aacPc = "done") =>
        \/ aacOut = NoneOut
        \/ /\ aacOut.kind = "Some"
           /\ \E header_size \in {7, 9} : \E frame_length \in header_size..Len(aacBuf) :
                  aacOut.bytes = Slice(aacBuf, header_size, frame_length)

(***************************************************************************)
(* Claims about the VarInt decoder (read_utf8)                             *)
(***************************************************************************)

\* the i-th byte read_utf8 has shifted into value (it starts at byte 4)
Utf8Byte(i) == flacData[4 + i]

RECURSIVE SumOfGroups(_)
\* the one bits of the sum of (byte_i & 0x7F) << 7(i - 1) over the first n
\* bytes of the number
SumOfGroups(n) ==
    IF n = 0 THEN {}
    ELSE SumOfGroups(n - 1)
             \cup {7 * (n - 1) + k : k \in {j \in 0..6 : (Utf8Byte(n) \div Pow2(j)) % 2 = 1}}

\* C6: the width guard is effective: on an input with enough continuation
\* bytes for the accumulated shift to pass 36 the shift takes the value 36,
\* no byte with one of its top five bits (mask 0xF8) set is accepted once
\* the shift has reached 36 (decoding fails with UTF8DecodingError
\* instead), and an encoding of at most six bytes (shift offsets 0, 7, ...,
\* 35) decodes to the sum of (byte_i & 0x7F) << 7i.
C6_WidthGuardEffective ==
    /\ Len(shiftTrace) >= 7 => \E i \in 1..Len(shiftTrace) : shiftTrace[i] = 36
    /\ \A i \in 1..Len(shiftTrace) :
           shiftTrace[i] >= 36 => BitAnd(Utf8Byte(i), 248) = 0
    /\ (flacPc \in {"blocksize", "samplerate", "crc", "ok"} /\ Len(shiftTrace) <= 6) =>
           fi.frame_or_sample_num = SumOfGroups(Len(shiftTrace))

\* C7: for every byte sequence the decoder ends with a value,
\* UTF8DecodingError or UnexpectedEndOfInput and never shifts its 64-bit
\* accumulator left by 64 bits or more.
C7_NoShiftOverflow ==
    /\ \A i \in 1..Len(shiftTrace) : shiftTrace[i] < 64
    /\ flacErr.name # "attempt to shift left with overflow"

(***************************************************************************)
(* Claims about the MPEG audio header decoder                              *)
(***************************************************************************)

\* parse_frame_header succeeds at offset o with a frame length of 16 or more
Mp3HitAt(o) ==
    LET h == ParseFrameHeader(Slice(mp3Data, o, Len(mp3Data)))
    IN  h.ok /\ h.frame_length >= 16

FindDone == mp3Op = "find" /\ mp3Pc = "done"

\* C8: find_frame returns (o, h) with o the smallest offset in 0..len-4 at
\* which parse_frame_header succeeds with frame_length >= 16 and h that
\* parse result, and nothing when there is no such offset or len < 4; for N
\* zero bytes followed by two identical frames it returns offset N and the
\* frame's constructed length.
C8_FindFrameFirstValidOffset ==
    FindDone =>
        /\ Len(mp3Data) < 4 => ~mp3Out.found
        /\ ~mp3Out.found => \A o \in 0..(Len(mp3Data) - 4) : ~Mp3HitAt(o)
        /\ mp3Out.found =>
               /\ mp3Out.offset \in 0..(Len(mp3Data) - 4)
               /\ Mp3HitAt(mp3Out.offset)
               /\ mp3Out.header =
                      ParseFrameHeader(Slice(mp3Data, mp3Out.offset, Len(mp3Data)))
               /\ \A o \in 0..(mp3Out.offset - 1) : ~Mp3HitAt(o)
        /\ \A n \in 0..MaxJunk : \A f \in {Frame417, Frame24} :
               mp3Data = Repeat0(n) \o f \o f =>
                   /\ mp3Out.found
                   /\ mp3Out.offset = n
                   /\ mp3Out.header.frame_length = Len(f)

\* the frame of 417 bytes has been found after 5 zero bytes
C8_Witness ==
    /\ FindDone
    /\ mp3Data = Repeat0(5) \o Frame417 \o Frame417
    /\ mp3Out.found
    /\ mp3Out.offset = 5
    /\ mp3Out.header.frame_length = 417

ParseOk == mp3Op = "parse" /\ mp3Pc = "done" /\ mp3Out.header.ok

\* the samples per frame and padding bytes the claim names
ClaimedSamples(h) ==
    CASE h.layer = "LayerI" -> 384
      [] h.layer = "LayerII" -> 1152
      [] h.layer = "LayerIII" /\ h.version = "V1" -> 1152
      [] h.layer = "LayerIII" /\ h.version \in {"V2", "V25"} -> 576
ClaimedPadding(h) ==
    IF h.padding THEN (IF h.layer = "LayerI" THEN 4 ELSE 1) ELSE 0

\* C9 as stated: for every header parse_frame_header accepts, frame_length =
\* floor(samples_per_frame * bitrate_bps / sample_rate) + padding_bytes.
C9_FrameLengthBitsPerSampleRate ==
    ParseOk =>
        LET h == mp3Out.header
        IN  h.frame_length =
                (ClaimedSamples(h) * (1000 * h.bitrate_kbps)) \div h.sample_rate
                    + ClaimedPadding(h)

\* C9 amended: frame_length = floor(samples_per_frame * bitrate_bps /
\* (8 * sample_rate)) + padding_bytes, a length in bytes, with the same
\* samples_per_frame, bitrate_bps and padding_bytes.
C9_FrameLengthInBytes ==
    ParseOk =>
        LET h == mp3Out.header
        IN  /\ h.samples_per_frame = ClaimedSamples(h)
            /\ h.frame_length =
                   (ClaimedSamples(h) * (1000 * h.bitrate_kbps)) \div (8 * h.sample_rate)
                       + ClaimedPadding(h)

\* a padded Layer I header has been parsed: 384 samples, 4 padding bytes
C9_Witness ==
    /\ ParseOk
    /\ mp3Out.header.layer = "LayerI"
    /\ mp3Out.header.padding
    /\ mp3Out.header.version = "V1"
    /\ mp3Out.header.bitrate_kbps = 448
    /\ mp3Out.header.sample_rate = 32000
    /\ mp3Out.header.frame_length = 676

(***************************************************************************)
(* Claims about the box walker                                             *)
(***************************************************************************)

\* the header at boxOffset as the claim reads it: the 32-bit size, the
\* header length, and whether the declared size stays within the buffer
Size32 == U32FromBe(boxData, boxOffset)
HeaderLen == IF Size32 = 1 THEN 16 ELSE 8
SizeHigh == U32FromBe(boxData, boxOffset + 8)
SizeLow == U32FromBe(boxData, boxOffset + 12)
\* the declared size is at least the header length and ends within the buffer
DeclaredFits ==
    CASE Size32 = 0 -> TRUE
      [] Size32 = 1 ->
           /\ boxOffset + 16 <= Len(boxData)
           /\ SizeHigh = 0
           /\ SizeLow >= 16
           /\ boxOffset + SizeLow <= Len(boxData)
      [] OTHER -> Size32 >= 8 /\ boxOffset + Size32 <= Len(boxData)
DeclaredEnd ==
    CASE Size32 = 0 -> Len(boxData)
      [] Size32 = 1 -> boxOffset + SizeLow
      [] OTHER -> boxOffset + Size32

RECURSIVE AdvancesByHeaders(_)
\* each offset of the trail is at least 8 beyond the one before
AdvancesByHeaders(t) ==
    Len(t) < 2 \/ (t[2] >= t[1] + 8 /\ AdvancesByHeaders(Tail(t)))

\* C10: next_box returns nothing, or (type, content, next) with
\* offset + 8 <= next <= len and content = buffer[offset + header_len .. next]
\* (header_len 16 when the 32-bit size is 1, else 8; next = len when the size
\* is 0); a declared size below the header length or past the buffer end
\* returns nothing.  So find_child's loop, fed each next offset, strictly
\* advances and gets at most len / 8 boxes.
C10_NextBoxWithinBuffer ==
    /\ (boxOp = "next_box" /\ boxPc = "done") =>
           /\ boxOut.some =>
                  /\ boxOffset + 8 <= boxOut.next
                  /\ boxOut.next <= Len(boxData)
                  /\ boxOut.next = DeclaredEnd
                  /\ boxOffset + HeaderLen <= boxOut.next
                  /\ boxOut.name = Slice(boxData, boxOffset + 4, boxOffset + 8)
                  /\ boxOut.content = Slice(boxData, boxOffset + HeaderLen, boxOut.next)
                  /\ Len(boxOut.content) = boxOut.next - boxOffset - HeaderLen
           /\ boxOut.some <=> (boxOffset + 8 <= Len(boxData) /\ DeclaredFits)
    /\ boxOp = "find_child" =>
           /\ AdvancesByHeaders(boxTrail)
           /\ Len(boxTrail) <= Len(boxData) \div 8
           /\ boxPc = "loop" => boxOffset >= boxTrail[Len(boxTrail)] + 8
           /\ (boxPc = "done" /\ boxOut.some) =>
                  /\ boxOut.name = boxTarget
                  /\ boxOut = NextBox(boxData, boxOffset)

\* next_box has returned the second box of a buffer, one with a 64-bit size
C10_Witness ==
    /\ boxOp = "next_box"
    /\ boxPc = "done"
    /\ boxOffset = 9
    /\ boxOut.some
    /\ Size32 = 1
    /\ boxOut.next = 26
    /\ boxOut.content = <<7>>

(***************************************************************************)
(* Claims about detect_audio_track                                         *)
(***************************************************************************)

\* the formats of a track that map to a known codec
KnownTypes(t) ==
    {FourccToAudioType(t.formats[j]) : j \in 1..Len(t.formats)} \ {"Unknown"}

\* C11: detect_audio_track returns no audio type for a file whose only trak
\* has an mdia whose hdlr is absent, has fewer than 12 content bytes or
\* names a handler other than 'soun', whatever its stsd holds; a type that is
\* returned is that of a sample entry of a trak whose handler is 'soun'.
C11_OnlySoundTracksGiveAType ==
    trkPc = "done" =>
        /\ (Len(trkShape.traks) = 1 /\ trkShape.traks[1].hdlr # "soun") => trkOut = NoAudio
        /\ trkOut.some =>
               \E i \in 1..Len(trkShape.traks) :
                   /\ trkShape.traks[i].hdlr = "soun"
                   /\ trkOut.audio_type \in KnownTypes(trkShape.traks[i])

\* a complete file whose only track is a video track with an mp4a sample
\* entry has been walked to the end of moov, and nothing was returned
C11_Witness ==
    /\ trkPc = "done"
    /\ trkShape.ftyp /\ trkShape.moov
    /\ trkShape.traks = <<[hdlr |-> "vide", formats |-> <<Mp4a>>]>>
    /\ trkOffset = Len(trkMoov)
    /\ trkOffset > 0
    /\ trkOut = NoAudio

(***************************************************************************)
(* Claims about the FLAC frame splitters                                   *)
(***************************************************************************)

\* the sync pattern at position i of b: 0xFF, then a byte whose top six bits
\* are 111110
SyncAt(b, i) == i + 2 <= Len(b) /\ b[i + 1] = 255 /\ BitAnd(b[i + 2], 252) = 248

SyncPositions(b) == {i \in 0..Len(b) : SyncAt(b, i)}

\* b from its first sync match to its end, nothing without a match
FromFirstSync(b) ==
    IF SyncPositions(b) = {} THEN <<>>
    ELSE Slice(b, CHOOSE i \in SyncPositions(b) : \A j \in SyncPositions(b) : i <= j, Len(b))

\* C12: extract_flac_frame returns, for every buffer, the empty and the
\* 1-byte buffer included, the suffix that starts at the first sync match, or
\* the empty slice without a match; it never fails.
C12_ExtractReturnsFirstSyncSuffix ==
    (frOp = "extract" /\ frPc = "done") => frOut = SliceResult(FromFirstSync(frData))

\* C13: the frames split_flac_frames returns are each at least 2 bytes long
\* and start with the sync pattern, hold no sync match after their start,
\* and concatenated in order are the buffer from its first sync match to
\* its end (no frames without a match).
C13_FramesPartitionFromFirstSync ==
    (frOp = "split" /\ frPc = "done") =>
        /\ frOut.kind = "Frames"
        /\ \A i \in 1..Len(frOut.bytes) :
               /\ Len(frOut.bytes[i]) >= 2
               /\ SyncPositions(frOut.bytes[i]) = {0}
        /\ Concat(frOut.bytes) = FromFirstSync(frData)

\* a buffer that starts with a byte outside every frame has been split into
\* two frames that differ
C13_Witness ==
    /\ frOp = "split"
    /\ frPc = "done"
    /\ Len(frOut.bytes) = 2
    /\ ~SyncAt(frData, 0)
    /\ frOut.bytes[1] # frOut.bytes[2]

(***************************************************************************)
(* Claims about is_nalu                                                    *)
(***************************************************************************)

\* the bytes 00 00 01 stand at some position of b
HasStartCode(b) == \E k \in 0..(Len(b) - 3) : Slice(b, k, k + 3) = <<0, 0, 1>>

\* C16: is_nalu(data) is true exactly when data holds the bytes 00 00 01 at
\* some position; every buffer without them is rejected.
C16_TrueExactlyOnStartCode ==
    naluPc = "done" => (naluOut = HasStartCode(naluData))

(***************************************************************************)
(* Claims about create_adts_header and is_aac                              *)
(***************************************************************************)

\* C17: every 7-byte header create_adts_header makes for a known profile
\* code (0x66, 0x67, 0x68), channels <= 7 and a sample rate of the table is
\* accepted by is_aac: the profile bits are never 0b11 and the
\* sampling-frequency index is never above 11.
C17_SynthesizedHeaderAccepted ==
    ( /\ aacOp = "is_aac"
      /\ aacPc = "done"
      /\ aacArgs.codec_id \in {102, 103, 104}
      /\ aacArgs.channels <= 7
      /\ aacArgs.sample_rate \in SupportedRates
      /\ ~aacArgs.has_crc )
        => /\ Len(aacBuf) = 7
           /\ Shr(aacBuf[3], 6) # 3
           /\ Shr(BitAnd(aacBuf[3], 60), 2) <= 11
           /\ aacOut = BoolOut(TRUE)

(***************************************************************************)
(* Claims about the end of the FLAC frame header and STREAMINFO            *)
(***************************************************************************)

\* C14: decode_frame_header fails with UnexpectedEndOfInput only when a
\* field would address a byte past the buffer: on a buffer that ends with
\* the CRC-8 byte of a well-formed header, skipping the CRC succeeds as a
\* read of those 8 bits would, and the header is returned.
C14_CrcByteAtEndIsEnough ==
    [][(flacPc = "crc" /\ Read(flacData, bit_position, 8).ok) => flacPc' = "ok"]_vars

\* the block size the codes of the header stand for, at the place after the
\* block size was read: the 8 or 16 bits before the reader plus 1 for codes
\* 6 and 7, the table entry for the other codes
CodedBlockSize ==
    CASE codes.bs_code = 6 -> Read(flacData, bit_position - 8, 8).value + 1
      [] codes.bs_code = 7 -> Read(flacData, bit_position - 16, 16).value + 1
      [] OTHER -> FLAC_BLOCKSIZE_TABLE[codes.bs_code + 1]

\* C15: the block size decode_frame_header stores is the 8-bit value + 1
\* for code 6, the 16-bit value + 1 for code 7 (65536 for 0xFFFF) and the
\* table entry for codes 1-5 and 8-15, and storing it neither overflows nor
\* wraps around.
C15_BlockSizeAsCoded ==
    /\ flacPc = "samplerate" => fi.block_size = CodedBlockSize
    /\ ~(flacPc = "panic" /\ flacErr.name = "attempt to add with overflow")

\* C18: for every frame info decode_frame_header returns, bits per sample 0
\* included, create_streaminfo completes without an arithmetic underflow
\* and returns 34 bytes: it never panics, and a call that completes has
\* not subtracted 1 from a bits-per-sample of 0.
C18_StreaminfoAlwaysBuilt ==
    /\ flacPc # "streaminfo_panic"
    /\ flacPc = "streaminfo" =>
           /\ Len(streaminfo) = 34
           /\ fi.bps # 0

====
